---- MODULE Spec2Model ----
(***************************************************************************)
(* Session lifecycle of cloudflared-quick-tunnel: RunPersistentQuickTunnel *)
(* (cmd/cloudflared-quick-tunnel/quick_tunnel.go) run one or more times    *)
(* against one credentials path, with the provisioning service, the local  *)
(* callback listener, the file system and the Tunnel Connector as the      *)
(* environment.                                                            *)
(*                                                                         *)
(* Strings that the code inspects (the hostname / URL) are sequences of    *)
(* one-character strings; opaque strings are TLA+ strings.  An optional    *)
(* value (a Go pointer or a file that may be absent) is a sequence of      *)
(* length 0 or 1.                                                          *)
(***************************************************************************)
EXTENDS Integers, Sequences, FiniteSets, TLC

\* ------------------------------------------------------------------------
\* Bounds of the model
\* ------------------------------------------------------------------------

\* Number of process runs made one after another on the same path.
MaxRuns == 2

\* The listener may fail on up to this many calls before it answers 2xx.
MaxListenerFails == 5

\* Back-off policy of backoff.NewExponentialBackOff(), in clock ticks; the
\* library's values (500 ms, 60 s, 15 min) are scaled down, the multiplier
\* 1.5 and the randomization factor 0.5 are kept.
InitialInterval == 2

MaxInterval == 4

MaxElapsedTime == 6

\* Longest time, in ticks, one POST to the listener takes.
MaxPostTime == 1

\* With two runs interleaved, the listener fails on at most this many calls.
MaxInterleavedFails == 1

\* Arguments of AsciiBox: at most MaxLines lines of at most MaxLineLen
\* bytes each, and a padding of at most MaxPadding.
MaxLines == 2

MaxLineLen == 2

MaxPadding == 2

\* ------------------------------------------------------------------------
\* Values
\* ------------------------------------------------------------------------

Procs == {1, 2}

None == <<>>

Some(x) == <<x>>

Scheme == <<"h", "t", "t", "p", "s", ":", "/", "/">>

HostA == <<"a", ".", "c">>

HostB == <<"b", ".", "c">>

\* strings.HasPrefix
HasPrefix(s, prefix) ==
    /\ Len(s) >= Len(prefix)
    /\ SubSeq(s, 1, Len(prefix)) = prefix

\* A textual UUID as the provisioning service sends it: its shape and the
\* 128-bit value it denotes (val), uuid.Parse accepting four shapes.
IdString(shape, val) == [shape |-> shape, val |-> val]

\* uuidParse with the validation lost: every id is taken as a UUID.
uuidParse_AcceptAll(s) == [ok |-> TRUE, uuid |-> s.val]

uuidParse(s) ==
    IF s.shape \in {"canonical", "urn", "braced", "compact"}
    THEN [ok |-> TRUE, uuid |-> s.val]
    ELSE [ok |-> FALSE, uuid |-> 0]

\* uuid.UUID.String / MarshalText: always the canonical shape.
uuidString(u) == IdString("canonical", u)

\* A byte slice: nil, or its bytes.
NilBytes == [nil |-> TRUE, bytes |-> <<>>]

Bytes(b) == [nil |-> FALSE, bytes |-> b]

\* connection.Credentials and QuickTunnelConfig
Credentials(tag, secret, id, name) ==
    [AccountTag |-> tag, TunnelSecret |-> secret, TunnelID |-> id,
     TunnelName |-> name]

QuickTunnelConfig(url, creds) == [URL |-> url, Credentials |-> creds]

\* The zero value json.Unmarshal allocates before it fills in the fields.
ZeroConfig == QuickTunnelConfig(<<>>, Credentials("", NilBytes, 0, ""))

\* QuickTunnel: the result object of a provisioning response.
QuickTunnel(id, name, hostname, tag, secret) ==
    [ID |-> id, Name |-> name, Hostname |-> hostname, AccountTag |-> tag,
     Secret |-> secret]

\* QuickTunnelResponse together with how the HTTP exchange went: postOK is
\* client.Post returning no error, decodable is the body being JSON of the
\* expected shape, status the HTTP status of the response.
QuickTunnelResponse(postOK, decodable, status, success, result, errors) ==
    [postOK |-> postOK, decodable |-> decodable, status |-> status,
     Success |-> success, Result |-> result, Errors |-> errors]

EmptyResult == QuickTunnel(IdString("badlen", 0), "", <<>>, "", NilBytes)

\* The responses the provisioning service is taken to give.
Responses ==
    { QuickTunnelResponse(TRUE, TRUE, 200, TRUE,
          QuickTunnel(IdString("canonical", 1), "n1", HostA, "acct",
                      Bytes(<<1, 2>>)), <<>>),
      QuickTunnelResponse(TRUE, TRUE, 200, TRUE,
          QuickTunnel(IdString("urn", 2), "n2", Scheme \o HostB, "acct",
                      Bytes(<<>>)), <<>>),
      QuickTunnelResponse(TRUE, TRUE, 500, FALSE,
          QuickTunnel(IdString("compact", 1), "n1", HostA, "acct",
                      Bytes(<<1, 2>>)), <<"quota">>),
      QuickTunnelResponse(TRUE, TRUE, 200, TRUE,
          QuickTunnel(IdString("badhex", 0), "n1", HostA, "acct",
                      Bytes(<<1, 2>>)), <<>>),
      QuickTunnelResponse(TRUE, TRUE, 200, TRUE,
          QuickTunnel(IdString("badlen", 0), "n1", Scheme \o HostA, "acct",
                      Bytes(<<1, 2>>)), <<>>),
      QuickTunnelResponse(TRUE, FALSE, 200, FALSE, EmptyResult, <<>>),
      QuickTunnelResponse(FALSE, FALSE, 0, FALSE, EmptyResult, <<>>) }

\* ------------------------------------------------------------------------
\* The persisted document
\* ------------------------------------------------------------------------

\* A JSON value of the document: a string, a number, or null.
JStr(s) == [t |-> "string", v |-> s]

JNum == [t |-> "number", v |-> <<>>]

JNull == [t |-> "null", v |-> <<>>]

\* Content that is not a JSON document (also an empty or truncated file).
Garbage == [kind |-> "garbage"]

\* base64 text of a byte slice (encoding/json writes []byte so).
Base64(b) == [t |-> "base64", v |-> b]

\* MarshalIndent leaving the secret out of the document.
MarshalIndent_NoSecret(config) ==
    [kind |-> "object",
     URL |-> JStr(config.URL),
     Credentials |->
        [AccountTag |-> JStr(config.Credentials.AccountTag),
         TunnelSecret |-> JNull,
         TunnelID |-> JStr(uuidString(config.Credentials.TunnelID)),
         TunnelName |-> JStr(config.Credentials.TunnelName)]]

\* json.MarshalIndent(config, "", " ")
MarshalIndent(config) ==
    [kind |-> "object",
     URL |-> JStr(config.URL),
     Credentials |->
        [AccountTag |-> JStr(config.Credentials.AccountTag),
         TunnelSecret |-> IF config.Credentials.TunnelSecret.nil
                          THEN JNull
                          ELSE Base64(config.Credentials.TunnelSecret.bytes),
         TunnelID |-> JStr(uuidString(config.Credentials.TunnelID)),
         TunnelName |-> JStr(config.Credentials.TunnelName)]]

\* json.Unmarshal(byteValue, &config) with the error dropped: content that
\* is not JSON leaves config nil; a field of the wrong JSON type keeps its
\* zero value and the other fields are still filled in.
Unmarshal(doc) ==
    IF doc.kind # "object" THEN None
    ELSE LET c == doc.Credentials
             id == IF c.TunnelID.t = "string" THEN uuidParse(c.TunnelID.v)
                   ELSE [ok |-> FALSE, uuid |-> 0]
         IN Some(QuickTunnelConfig(
                IF doc.URL.t = "string" THEN doc.URL.v ELSE ZeroConfig.URL,
                Credentials(
                    IF c.AccountTag.t = "string" THEN c.AccountTag.v ELSE "",
                    IF c.TunnelSecret.t = "base64"
                        THEN Bytes(c.TunnelSecret.v) ELSE NilBytes,
                    IF id.ok THEN id.uuid ELSE 0,
                    IF c.TunnelName.t = "string" THEN c.TunnelName.v
                    ELSE "")))

\* ioutil.ReadFile followed by json.Unmarshal, both errors dropped: an
\* unreadable file gives no bytes, which do not parse.
LoadConfig(f, readOK) ==
    IF f = None \/ ~readOK THEN None ELSE Unmarshal(f[1])

\* ------------------------------------------------------------------------
\* RequestNewQuickTunnel
\* ------------------------------------------------------------------------

\* RequestNewQuickTunnel rejecting a response whose success flag is false.
RequestNewQuickTunnel_ChecksSuccess(resp) ==
    IF ~resp.postOK
    THEN [config |-> None, err |-> "failed to request quick Tunnel",
          banner |-> None]
    ELSE IF ~resp.decodable \/ ~resp.Success
    THEN [config |-> None, err |-> "failed to unmarshal quick Tunnel",
          banner |-> None]
    ELSE LET tunnelID == uuidParse(resp.Result.ID)
             credentials == Credentials(resp.Result.AccountTag,
                                        resp.Result.Secret,
                                        tunnelID.uuid,
                                        resp.Result.Name)
             url == IF ~HasPrefix(resp.Result.Hostname, Scheme)
                    THEN Scheme \o resp.Result.Hostname
                    ELSE resp.Result.Hostname
         IN IF ~tunnelID.ok
            THEN [config |-> None, err |-> "failed to parse quick Tunnel ID",
                  banner |-> None]
            ELSE [config |-> Some(QuickTunnelConfig(resp.Result.Hostname,
                                                    credentials)),
                  err |-> "nil",
                  banner |-> Some(url)]

\* The outcome for one response: the returned config and error, and the URL
\* shown in the operator banner.
RequestNewQuickTunnel(resp) ==
    IF ~resp.postOK
    THEN [config |-> None, err |-> "failed to request quick Tunnel",
          banner |-> None]
    ELSE IF ~resp.decodable
    THEN [config |-> None, err |-> "failed to unmarshal quick Tunnel",
          banner |-> None]
    ELSE LET tunnelID == uuidParse(resp.Result.ID)
             credentials == Credentials(resp.Result.AccountTag,
                                        resp.Result.Secret,
                                        tunnelID.uuid,
                                        resp.Result.Name)
             url == IF ~HasPrefix(resp.Result.Hostname, Scheme)
                    THEN Scheme \o resp.Result.Hostname
                    ELSE resp.Result.Hostname
         IN IF ~tunnelID.ok
            THEN [config |-> None, err |-> "failed to parse quick Tunnel ID",
                  banner |-> None]
            ELSE [config |-> Some(QuickTunnelConfig(resp.Result.Hostname,
                                                    credentials)),
                  err |-> "nil",
                  banner |-> Some(url)]

\* ------------------------------------------------------------------------
\* The operator banner
\* ------------------------------------------------------------------------

\* strings.Repeat of a one-byte string, for a count that is not negative.
Repeat(c, count) == [i \in 1 .. count |-> c]

RECURSIVE maxLenLoop(_, _, _)
\* The loop of maxLen from line i on, max being the longest length so far.
maxLenLoop(lines, i, max) ==
    IF i > Len(lines) THEN max
    ELSE maxLenLoop(lines, i + 1,
                    IF Len(lines[i]) > max THEN Len(lines[i]) ELSE max)

\* maxLen keeping the length of the line it saw last.
maxLen_Last(lines) ==
    IF Len(lines) = 0 THEN 0 ELSE Len(lines[Len(lines)])

\* maxLen: the length in bytes of the longest line, 0 for no lines.
maxLen(lines) == maxLenLoop(lines, 1, 0)

\* AsciiBox: a border, one row per line, the border again.
AsciiBox(lines, padding) ==
    LET width == maxLen(lines)
        spacer == Repeat(" ", padding)
        border == <<"+">> \o Repeat("-", width + (padding * 2)) \o <<"+">>
    IN <<border>>
       \o [i \in 1 .. Len(lines) |->
              <<"|">> \o spacer \o lines[i]
                     \o Repeat(" ", width - Len(lines[i])) \o spacer
                     \o <<"|">>]
       \o <<border>>

\* ------------------------------------------------------------------------
\* The callback and its retry policy
\* ------------------------------------------------------------------------

\* What one POST to the listener gives: an HTTP status, or 0 when the
\* transport failed and there is no response.
TransportError == 0

FailReplies == {TransportError, 199, 300, 404, 500}

OkReplies == {200, 204, 299}

\* callbackOperation with the status test lost: any response is success.
callbackOperation_AnyResponse(reply) ==
    IF reply = TransportError THEN "transport error" ELSE "nil"

\* callbackOperation with the upper end of the range excluded.
callbackOperation_Exclusive(reply) ==
    IF reply = TransportError THEN "transport error"
    ELSE IF reply >= 200 /\ reply < 299 THEN "nil"
    ELSE "Callback error"

\* callbackOperation with the range one status too wide.
callbackOperation_Upto300(reply) ==
    IF reply = TransportError THEN "transport error"
    ELSE IF reply >= 200 /\ reply <= 300 THEN "nil"
    ELSE "Callback error"

\* callbackOperation: the error of one attempt ("nil" is success).
callbackOperation(reply) ==
    IF reply = TransportError THEN "transport error"
    ELSE IF reply >= 200 /\ reply <= 299 THEN "nil"
    ELSE "Callback error"

\* ExponentialBackOff.NextBackOff: the jittered delays it may draw for the
\* current interval (randomization factor 0.5).
RandomizedIntervals(cur) == (cur - cur \div 2) .. (cur + cur \div 2)

\* ExponentialBackOff.incrementCurrentInterval (multiplier 1.5).
IncrementCurrentInterval(cur) ==
    IF 3 * cur >= 2 * MaxInterval THEN MaxInterval ELSE (3 * cur) \div 2

\* BackOffStops stopping already when the ceiling is reached, not passed.
BackOffStops_AtCeiling(elapsedNow, delay) ==
    elapsedNow + delay >= MaxElapsedTime

\* NextBackOff returns Stop once the elapsed time plus the next delay
\* passes MaxElapsedTime; backoff.Retry then returns the last error.
BackOffStops(elapsedNow, delay) == elapsedNow + delay > MaxElapsedTime

\* ------------------------------------------------------------------------
\* State
\* ------------------------------------------------------------------------

VARIABLES
    file,            \* content at the credentials path: None or Some(doc)
    pathReachable,   \* FALSE: os.Stat fails with an error other than ENOENT
    listenerFails,   \* calls the listener still fails before it answers 2xx
    lastReply,       \* the listener's reply to the latest POST
    lastAcked,       \* body of the POST most recently answered 2xx
    acked,           \* bodies of the POSTs the listener answered 2xx
    saved,           \* the config whose document a write of these runs
                     \* left on disk, while that document is still there
    runs,            \* number of runs started so far
    pc,              \* per process: position in RunPersistentQuickTunnel
    err,             \* per process: the error the run returned
    config,          \* per process: the local variable config
    existingTunnel,  \* per process: the local variable existingTunnel
    elapsed,         \* per process: ticks since backoff.Retry began
    currentInterval, \* per process: the back-off's current interval
    next,            \* per process: the delay NextBackOff returned last
    response,        \* per process: the provisioning response received
    connArg,         \* per process: what tunnel.StartServer was handed
    banner,          \* per process: the URL shown in the operator banner
    log,             \* per process: the events of the run, in order
    startFile,       \* per process: the file content the run started with
    failsAtStart,    \* per process: listenerFails when Announce began
    prevErr,         \* per process: the outcome of the previous run
    argLines,        \* the display lines handed to AsciiBox
    argPadding,      \* the padding handed to AsciiBox
    box              \* the rows AsciiBox returned, None before the call

\* The state of the runs of RunPersistentQuickTunnel.
runVars == <<file, saved, pathReachable, listenerFails, lastReply, lastAcked,
             acked, runs, pc, err,
             config, existingTunnel, elapsed, currentInterval, next, response,
             connArg, banner, log, startFile, failsAtStart, prevErr>>

\* The arguments and the result of a call of AsciiBox.
boxVars == <<argLines, argPadding, box>>

vars == <<runVars, boxVars>>

\* A config provisioned by an earlier run, as that run persisted it.
StoredConfig ==
    QuickTunnelConfig(Scheme \o HostA,
                      Credentials("acct", Bytes(<<1, 2>>), 1, "n1"))

\* A document whose URL has the wrong JSON type.
MistypedDoc == [MarshalIndent(StoredConfig) EXCEPT !.URL = JNum]

InitFiles ==
    {None, Some(MarshalIndent(StoredConfig)), Some(Garbage), Some(MistypedDoc)}

RestartRequired == "Failed to start server. Restart to create new tunnel."

ConnectorError == "connector error"

\* The runs before any has started.
InitRuns ==
    /\ file \in InitFiles
    /\ pathReachable \in BOOLEAN
    /\ listenerFails \in 0 .. MaxListenerFails
    /\ lastReply = TransportError
    /\ saved = None
    /\ lastAcked = None
    /\ acked = {}
    /\ runs = 0
    /\ pc = [p \in Procs |-> "idle"]
    /\ err = [p \in Procs |-> "none"]
    /\ config = [p \in Procs |-> None]
    /\ existingTunnel = [p \in Procs |-> FALSE]
    /\ elapsed = [p \in Procs |-> 0]
    /\ currentInterval = [p \in Procs |-> InitialInterval]
    /\ next = [p \in Procs |-> 0]
    /\ response = [p \in Procs |-> None]
    /\ connArg = [p \in Procs |-> None]
    /\ banner = [p \in Procs |-> None]
    /\ log = [p \in Procs |-> <<>>]
    /\ startFile = [p \in Procs |-> None]
    /\ failsAtStart = [p \in Procs |-> 0]
    /\ prevErr = [p \in Procs |-> "none"]

Init ==
    /\ InitRuns
    /\ argLines = <<>>
    /\ argPadding = 0
    /\ box = None

\* ------------------------------------------------------------------------
\* RunPersistentQuickTunnel, step by step
\* ------------------------------------------------------------------------

\* StatIsNotExist taking the fresh branch whether or not a file is there.
StatIsNotExist_IgnoresFile(f, reachable) == reachable

\* os.Stat(configFile) and the test errors.Is(err, os.ErrNotExist): only
\* ENOENT selects the fresh branch, every other outcome the else branch.
StatIsNotExist(f, reachable) == reachable /\ f = None

Stat(p) ==
    /\ pc[p] = "idle"
    /\ runs < MaxRuns
    /\ runs' = runs + 1
    /\ startFile' = [startFile EXCEPT ![p] = file]
    /\ log' = [log EXCEPT ![p] = <<>>]
    /\ pc' = [pc EXCEPT ![p] = IF StatIsNotExist(file, pathReachable)
                               THEN "provision" ELSE "load"]
    /\ UNCHANGED <<boxVars, file, saved, pathReachable, listenerFails, lastReply,
                   lastAcked, acked, err,
                   config, existingTunnel, elapsed, currentInterval, next,
                   response, connArg, banner, failsAtStart, prevErr>>

\* config, err = RequestNewQuickTunnel(c, log); an error is returned at once,
\* otherwise backoff.Retry starts with a reset policy.
Provision(p) ==
    /\ pc[p] = "provision"
    /\ \E resp \in Responses :
         LET r == RequestNewQuickTunnel(resp) IN
         /\ response' = [response EXCEPT ![p] = Some(resp)]
         /\ config' = [config EXCEPT ![p] = r.config]
         /\ banner' = [banner EXCEPT ![p] = r.banner]
         /\ IF r.err # "nil"
            THEN /\ pc' = [pc EXCEPT ![p] = "done"]
                 /\ err' = [err EXCEPT ![p] = r.err]
                 /\ log' = [log EXCEPT ![p] = Append(@, "provision_err")]
            ELSE /\ pc' = [pc EXCEPT ![p] = "announce"]
                 /\ err' = err
                 /\ log' = [log EXCEPT ![p] = Append(@, "provision_ok")]
    /\ elapsed' = [elapsed EXCEPT ![p] = 0]
    /\ currentInterval' = [currentInterval EXCEPT ![p] = InitialInterval]
    /\ failsAtStart' = [failsAtStart EXCEPT ![p] = listenerFails]
    /\ UNCHANGED <<boxVars, file, saved, pathReachable, listenerFails, lastReply,
                   lastAcked, acked, runs,
                   existingTunnel, next, connArg, startFile, prevErr>>

\* CallbackBody sending the URL with the scheme put in front.
CallbackBody_WithScheme(cfg) ==
    IF HasPrefix(cfg.URL, Scheme) THEN cfg.URL ELSE Scheme \o cfg.URL

\* The body of the POST: strings.NewReader(config.URL).
CallbackBody(cfg) == cfg.URL

\* The replies the listener can give to the next POST.
ListenerReplies == IF listenerFails > 0 THEN FailReplies ELSE OkReplies

\* One turn of backoff.Retry(callbackOperation, NewExponentialBackOff()):
\* the POST of config.URL, which takes d ticks, then on an error either the
\* sleep of the next delay or, when the policy stops, the return of that
\* error.  The log records what the listener answered.
Retry(p) ==
    /\ pc[p] = "announce"
    /\ \E reply \in ListenerReplies, d \in 0 .. MaxPostTime :
         LET opErr == callbackOperation(reply) IN
         /\ lastReply' = reply
         /\ listenerFails' = IF listenerFails > 0 THEN listenerFails - 1 ELSE 0
         /\ acked' = IF reply \in OkReplies
                     THEN acked \cup {CallbackBody(config[p][1])} ELSE acked
         /\ lastAcked' = IF reply \in OkReplies
                         THEN Some(CallbackBody(config[p][1])) ELSE lastAcked
         /\ log' = [log EXCEPT ![p] = Append(@, IF reply \in OkReplies
                                                THEN "post_2xx"
                                                ELSE "post_fail")]
         /\ IF opErr = "nil"
            THEN /\ pc' = [pc EXCEPT ![p] = "persist"]
                 /\ elapsed' = [elapsed EXCEPT ![p] = @ + d]
                 /\ UNCHANGED <<err, currentInterval, next>>
            ELSE \E delay \in RandomizedIntervals(currentInterval[p]) :
                      /\ next' = [next EXCEPT ![p] = delay]
                      /\ currentInterval' =
                            [currentInterval EXCEPT
                                ![p] = IncrementCurrentInterval(@)]
                      /\ IF BackOffStops(elapsed[p] + d, delay)
                         THEN /\ pc' = [pc EXCEPT ![p] = "done"]
                              /\ err' = [err EXCEPT ![p] = opErr]
                              /\ elapsed' = [elapsed EXCEPT ![p] = @ + d]
                         ELSE /\ pc' = pc
                              /\ err' = err
                              /\ elapsed' =
                                    [elapsed EXCEPT ![p] = @ + d + delay]
    /\ UNCHANGED <<boxVars, file, saved, pathReachable, runs, config, existingTunnel,
                   response, connArg, banner, startFile, failsAtStart,
                   prevErr>>

\* json.MarshalIndent and ioutil.WriteFile: the write succeeds, fails before
\* the file is opened, or fails after the file was created or truncated.
WriteOutcomes == {"ok", "open failed", "short write"}

\* Persist with the error of WriteFile dropped.
Persist_ErrorIgnored(p) ==
    /\ pc[p] = "persist"
    /\ \E outcome \in WriteOutcomes :
         /\ file' = CASE outcome = "ok" -> Some(MarshalIndent(config[p][1]))
                      [] outcome = "open failed" -> file
                      [] outcome = "short write" -> Some(Garbage)
         /\ saved' = CASE outcome = "ok" -> Some(config[p][1])
                       [] outcome = "open failed" -> saved
                       [] outcome = "short write" -> None
         /\ IF outcome = "ok"
            THEN /\ pc' = [pc EXCEPT ![p] = "connect"]
                 /\ err' = err
                 /\ log' = [log EXCEPT ![p] = Append(@, "write_ok")]
            ELSE /\ pc' = [pc EXCEPT ![p] = "connect"]
                 /\ err' = err
                 /\ log' = [log EXCEPT ![p] = Append(@, "write_err")]
    /\ UNCHANGED <<boxVars, pathReachable, listenerFails, lastReply,
                   lastAcked, acked, runs,
                   config, existingTunnel, elapsed, currentInterval, next,
                   response, connArg, banner, startFile, failsAtStart,
                   prevErr>>

\* The config is written once the callback was acknowledged.
Persist(p) ==
    /\ pc[p] = "persist"
    /\ \E outcome \in WriteOutcomes :
         /\ file' = CASE outcome = "ok" -> Some(MarshalIndent(config[p][1]))
                      [] outcome = "open failed" -> file
                      [] outcome = "short write" -> Some(Garbage)
         /\ saved' = CASE outcome = "ok" -> Some(config[p][1])
                       [] outcome = "open failed" -> saved
                       [] outcome = "short write" -> None
         /\ IF outcome = "ok"
            THEN /\ pc' = [pc EXCEPT ![p] = "connect"]
                 /\ err' = err
                 /\ log' = [log EXCEPT ![p] = Append(@, "write_ok")]
            ELSE /\ pc' = [pc EXCEPT ![p] = "done"]
                 /\ err' = [err EXCEPT ![p] = "write error"]
                 /\ log' = [log EXCEPT ![p] = Append(@, "write_err")]
    /\ UNCHANGED <<boxVars, pathReachable, listenerFails, lastReply,
                   lastAcked, acked, runs,
                   config, existingTunnel, elapsed, currentInterval, next,
                   response, connArg, banner, startFile, failsAtStart,
                   prevErr>>

\* Whether ReadFile or Unmarshal reported an error (which the code drops).
LoadFails(f, readOK) ==
    \/ f = None
    \/ ~readOK
    \/ f[1].kind # "object"
    \/ f[1].URL.t # "string"

\* The else branch: ReadFile, Unmarshal, existingTunnel = true, and then the
\* read of config.URL for the log line, which panics on a nil config.
Load(p) ==
    /\ pc[p] = "load"
    /\ \E readOK \in (IF pathReachable THEN BOOLEAN ELSE {FALSE}) :
         LET loaded == LoadConfig(file, readOK) IN
         /\ config' = [config EXCEPT ![p] = loaded]
         /\ log' = [log EXCEPT ![p] = Append(@, IF LoadFails(file, readOK)
                                                THEN "load_err"
                                                ELSE "load_ok")]
         /\ pc' = [pc EXCEPT ![p] = IF loaded = None THEN "panicked"
                                    ELSE "connect"]
    /\ existingTunnel' = [existingTunnel EXCEPT ![p] = TRUE]
    /\ UNCHANGED <<boxVars, file, saved, pathReachable, listenerFails, lastReply,
                   lastAcked, acked, runs,
                   err, elapsed, currentInterval, next, response, connArg,
                   banner, startFile, failsAtStart, prevErr>>

\* AfterStartServer without the recovery: the connector's error is returned.
AfterStartServer_NoDelete(connErr, existing) == connErr

\* AfterStartServer without the existingTunnel test: any failure deletes.
AfterStartServer_AlwaysDelete(connErr, existing) ==
    IF connErr = "nil" THEN connErr ELSE "none"

\* AfterStartServer with the test of err inverted: deletes after success.
AfterStartServer_DeleteOnSuccess(connErr, existing) ==
    IF connErr = "nil" /\ existing THEN "none" ELSE connErr

\* What RunPersistentQuickTunnel returns once StartServer has returned
\* connErr, when no deletion is needed; "none" when it goes on to delete.
AfterStartServer(connErr, existing) ==
    IF connErr = "nil" \/ ~existing THEN connErr ELSE "none"

\* tunnel.StartServer with the config's credentials and URL.
StartServer(p) ==
    /\ pc[p] = "connect"
    /\ connArg' = [connArg EXCEPT
                     ![p] = Some([Credentials |-> config[p][1].Credentials,
                                  QuickTunnelUrl |-> config[p][1].URL])]
    /\ \E connErr \in {"nil", ConnectorError} :
         LET ret == AfterStartServer(connErr, existingTunnel[p]) IN
         /\ log' = [log EXCEPT ![p] = Append(@, IF connErr = "nil"
                                                THEN "connect_ok"
                                                ELSE "connect_err")]
         /\ IF ret # "none"
            THEN /\ pc' = [pc EXCEPT ![p] = "done"]
                 /\ err' = [err EXCEPT ![p] = ret]
            ELSE /\ pc' = [pc EXCEPT ![p] = "remove"]
                 /\ err' = err
    /\ UNCHANGED <<boxVars, file, saved, pathReachable, listenerFails, lastReply,
                   lastAcked, acked, runs,
                   config, existingTunnel, elapsed, currentInterval, next,
                   response, banner, startFile, failsAtStart, prevErr>>

\* os.Remove leaving the file in place while reporting success.
FileAfterRemove_Kept(f, removeOK) == f

\* os.Remove taking the file away even when it reports an error.
FileAfterRemove_Always(f, removeOK) == None

\* The file after os.Remove(configFile).
FileAfterRemove(f, removeOK) == IF removeOK THEN None ELSE f

\* os.Remove(configFile) after a resumed session's connector failed.
Remove(p) ==
    /\ pc[p] = "remove"
    /\ \E removeOK \in (IF file = None THEN {FALSE} ELSE BOOLEAN) :
         /\ file' = FileAfterRemove(file, removeOK)
         /\ saved' = IF file' = file THEN saved ELSE None
         /\ IF removeOK
            THEN /\ err' = [err EXCEPT ![p] = RestartRequired]
                 /\ log' = [log EXCEPT ![p] = Append(@, "remove_ok")]
            ELSE /\ err' = [err EXCEPT ![p] = "remove error"]
                 /\ log' = [log EXCEPT ![p] = Append(@, "remove_err")]
    /\ pc' = [pc EXCEPT ![p] = "done"]
    /\ UNCHANGED <<boxVars, pathReachable, listenerFails, lastReply,
                   lastAcked, acked, runs,
                   config, existingTunnel, elapsed, currentInterval, next,
                   response, connArg, banner, startFile, failsAtStart,
                   prevErr>>

\* The Action of the "run" command: it calls RunPersistentQuickTunnel,
\* drops what it returns, and returns nil.
RunAction(runErr) == "nil"

\* The process ends; the next run starts with fresh local variables.
Exit(p) ==
    /\ pc[p] \in {"done", "panicked"}
    /\ runs < MaxRuns
    /\ prevErr' = [prevErr EXCEPT ![p] = IF pc[p] = "panicked" THEN "panic"
                                         ELSE err[p]]
    /\ pc' = [pc EXCEPT ![p] = "idle"]
    /\ err' = [err EXCEPT ![p] = "none"]
    /\ config' = [config EXCEPT ![p] = None]
    /\ existingTunnel' = [existingTunnel EXCEPT ![p] = FALSE]
    /\ elapsed' = [elapsed EXCEPT ![p] = 0]
    /\ currentInterval' = [currentInterval EXCEPT ![p] = InitialInterval]
    /\ next' = [next EXCEPT ![p] = 0]
    /\ response' = [response EXCEPT ![p] = None]
    /\ connArg' = [connArg EXCEPT ![p] = None]
    /\ banner' = [banner EXCEPT ![p] = None]
    /\ log' = [log EXCEPT ![p] = <<>>]
    /\ startFile' = [startFile EXCEPT ![p] = None]
    /\ failsAtStart' = [failsAtStart EXCEPT ![p] = 0]
    /\ UNCHANGED <<boxVars, file, saved, pathReachable, listenerFails, lastReply,
                   lastAcked, acked, runs>>

\* Runs made one after another: a single process at a time.
Sequential == {1}

Next ==
    \/ \E p \in Sequential : Stat(p)
    \/ \E p \in Sequential : Provision(p)
    \/ \E p \in Sequential : Retry(p)
    \/ \E p \in Sequential : Persist(p)
    \/ \E p \in Sequential : Load(p)
    \/ \E p \in Sequential : StartServer(p)
    \/ \E p \in Sequential : Remove(p)
    \/ \E p \in Sequential : Exit(p)

Spec == Init /\ [][Next]_vars

\* Two runs started against the same path, each its own process, their
\* steps interleaved in any order; no file exists when the first one starts
\* (a start with the path unreachable is kept as well).
InitInterleaved ==
    /\ Init
    /\ file = None
    /\ listenerFails <= MaxInterleavedFails

NextInterleaved ==
    \/ \E p \in Procs : Stat(p)
    \/ \E p \in Procs : Provision(p)
    \/ \E p \in Procs : Retry(p)
    \/ \E p \in Procs : Persist(p)
    \/ \E p \in Procs : Load(p)
    \/ \E p \in Procs : StartServer(p)
    \/ \E p \in Procs : Remove(p)

SpecInterleaved == InitInterleaved /\ [][NextInterleaved]_vars

\* The bytes the display lines are made of.
LineBytes == {"a", "b"}

\* The sequences over S of length at most n.
SeqsUpTo(S, n) == UNION {[1 .. k -> S] : k \in 0 .. n}

\* One call of AsciiBox on any lines and padding within the bounds, apart
\* from any run.
InitBox ==
    /\ InitRuns
    /\ file = None
    /\ pathReachable
    /\ listenerFails = 0
    /\ argLines \in SeqsUpTo(SeqsUpTo(LineBytes, MaxLineLen), MaxLines)
    /\ argPadding \in 0 .. MaxPadding
    /\ box = None

Render ==
    /\ box = None
    /\ box' = Some(AsciiBox(argLines, argPadding))
    /\ UNCHANGED <<runVars, argLines, argPadding>>

NextBox == Render

SpecBox == InitBox /\ [][NextBox]_vars

\* ------------------------------------------------------------------------
\* Reading the event log of a run
\* ------------------------------------------------------------------------

Has(l, e) == \E i \in 1 .. Len(l) : l[i] = e

Count(l, S) == Cardinality({i \in 1 .. Len(l) : l[i] \in S})

\* a, then b, then an event of S, in this order
InOrder(l, a, b, S) ==
    \E i, j, k \in 1 .. Len(l) :
        i < j /\ j < k /\ l[i] = a /\ l[j] = b /\ l[k] \in S

ProvisionEvents == {"provision_ok", "provision_err"}

PostEvents == {"post_2xx", "post_fail"}

WriteEvents == {"write_ok", "write_err"}

ConnectEvents == {"connect_ok", "connect_err"}

\* The run of p has started and found no file at a reachable path.
StartedFresh(p) == pc[p] # "idle" /\ pathReachable /\ startFile[p] = None

\* The run of p has started and found a file at a reachable path.
StartedWithFile(p) == pc[p] # "idle" /\ pathReachable /\ startFile[p] # None

\* ------------------------------------------------------------------------
\* Properties
\* ------------------------------------------------------------------------

\* C1: a run that starts with no config file calls RequestNewQuickTunnel
\* exactly once; whenever the file has been written (or a write attempted)
\* in this run, the log shows a successful provisioning, then a POST the
\* listener answered 2xx, then the write; as long as no POST was answered
\* 2xx there is no file on disk.
C1_ProvisionOnceWriteAfterAck ==
    \A p \in Procs :
        StartedFresh(p) =>
            /\ Count(log[p], ProvisionEvents)
                  = IF pc[p] = "provision" THEN 0 ELSE 1
            /\ (file # None \/ Count(log[p], WriteEvents) > 0)
                  => InOrder(log[p], "provision_ok", "post_2xx", WriteEvents)
            /\ ~Has(log[p], "post_2xx") => file = None

C1_Witness ==
    /\ StartedFresh(1)
    /\ pc[1] = "connect"
    /\ file # None
    /\ log[1] = <<"provision_ok", "post_fail", "post_2xx", "write_ok">>

\* C2: a run that found a config file, whose connector failed and whose
\* deletion did not fail, ends with the file gone and with the "restart
\* required" error, which is not the connector's error.
C2_ResumedFailureDeletesAndRestarts ==
    \A p \in Procs :
        ( /\ StartedWithFile(p)
          /\ pc[p] = "done"
          /\ Has(log[p], "connect_err")
          /\ ~Has(log[p], "remove_err") )
        => /\ file = None
           /\ err[p] = RestartRequired
           /\ err[p] # ConnectorError

C2_Witness ==
    /\ StartedWithFile(1)
    /\ pc[1] = "done"
    /\ log[1] = <<"load_ok", "connect_err", "remove_ok">>
    /\ file = None

\* C3: when the connector fails in a run that started with no file, the run
\* returns the connector's error itself, deletes nothing, and the file on
\* disk is still the document this run persisted for its config.
C3_FreshFailureKeepsFile ==
    \A p \in Procs :
        (StartedFresh(p) /\ pc[p] = "done" /\ Has(log[p], "connect_err"))
        => /\ err[p] = ConnectorError
           /\ file = Some(MarshalIndent(config[p][1]))
           /\ Count(log[p], {"remove_ok", "remove_err"}) = 0

C3_Witness ==
    /\ StartedFresh(1)
    /\ pc[1] = "done"
    /\ Has(log[1], "write_ok")
    /\ Has(log[1], "connect_err")
    /\ file # None

\* C4 (as claimed): the URL of a config returned by RequestNewQuickTunnel
\* starts with https://: it is the response's hostname when that already
\* has the prefix, and the hostname with the prefix prepended otherwise.
C4_UrlCarriesScheme ==
    \A p \in Procs :
        Has(log[p], "provision_ok") =>
            LET h == response[p][1].Result.Hostname IN
            /\ HasPrefix(config[p][1].URL, Scheme)
            /\ config[p][1].URL = IF HasPrefix(h, Scheme) THEN h
                                  ELSE Scheme \o h

\* C5: once a decodable response whose id is no UUID has been received,
\* the run is over with the parse error and without a config; it has
\* issued no POST, written nothing and not started the connector.
C5_NonUuidRejected ==
    \A p \in Procs :
        ( /\ response[p] # None
          /\ response[p][1].postOK
          /\ response[p][1].decodable
          /\ response[p][1].Result.ID.shape \in {"badhex", "badlen"} )
        => /\ pc[p] = "done"
           /\ err[p] = "failed to parse quick Tunnel ID"
           /\ config[p] = None
           /\ Count(log[p], PostEvents \cup WriteEvents \cup ConnectEvents) = 0
           /\ file = startFile[p]
           /\ connArg[p] = None

C5_Witness ==
    /\ pc[1] = "done"
    /\ response[1] # None
    /\ response[1][1].Result.ID.shape = "badhex"
    /\ err[1] = "failed to parse quick Tunnel ID"

\* C6 (as claimed): a run whose ReadFile or Unmarshal failed ends with
\* that error and never hands anything to the connector.
C6_LoadFailureIsFatal ==
    \A p \in Procs :
        Has(log[p], "load_err") =>
            /\ pc[p] = "done"
            /\ err[p] = "load error"
            /\ connArg[p] = None
            /\ Count(log[p], ConnectEvents) = 0

\* C7 (as claimed): a run that starts with the file present never
\* provisions, posts or writes, and hands the connector the URL and the
\* credentials the file stores; and only a file present at the start puts a
\* run on the resumed path.
C7_ResumedRunReusesStoredTunnel ==
    \A p \in Procs :
        pc[p] # "idle" =>
            /\ startFile[p] # None =>
                  /\ Count(log[p], ProvisionEvents \cup PostEvents
                                      \cup WriteEvents) = 0
                  /\ connArg[p] # None =>
                        /\ startFile[p][1].kind = "object"
                        /\ startFile[p][1].URL
                              = JStr(connArg[p][1].QuickTunnelUrl)
                        /\ startFile[p][1].Credentials
                              = MarshalIndent(QuickTunnelConfig(<<>>,
                                    connArg[p][1].Credentials)).Credentials
            /\ (existingTunnel[p] \/ pc[p] = "load") => startFile[p] # None

CallbackErrors == {"Callback error", "transport error"}

\* C8: the run after one that ended with the "restart required" error
\* finds no file, never takes the else branch, requests a new tunnel, and
\* starts the connector only after a successful provisioning and a POST the
\* listener answered 2xx.
C8_RestartRequiredThenFresh ==
    \A p \in Procs :
        (prevErr[p] = RestartRequired /\ pc[p] # "idle") =>
            /\ startFile[p] = None
            /\ ~existingTunnel[p]
            /\ pc[p] \notin {"load", "remove", "panicked"}
            /\ Count(log[p], {"load_ok", "load_err"}) = 0
            /\ pc[p] # "provision" => Count(log[p], ProvisionEvents) = 1
            /\ Count(log[p], ConnectEvents) > 0
                  => InOrder(log[p], "provision_ok", "post_2xx", ConnectEvents)

C8_Witness ==
    /\ prevErr[1] = RestartRequired
    /\ pc[1] = "done"
    /\ log[1] = <<"provision_ok", "post_2xx", "write_ok", "connect_ok">>

\* C9 (as claimed): with a listener that fails its first n calls and then
\* answers 2xx, the notifier, once it has returned, has issued exactly n+1
\* POSTs of which the last one was answered 2xx.
C9_AlwaysAckOnAttemptNPlusOne ==
    \A p \in Procs :
        (Has(log[p], "provision_ok") /\ pc[p] # "announce") =>
            /\ Count(log[p], PostEvents) = failsAtStart[p] + 1
            /\ Count(log[p], {"post_2xx"}) = 1
            /\ log[p][failsAtStart[p] + 2] = "post_2xx"

\* C9 (amended): while the notifier runs, no POST has been answered 2xx and
\* at most n have failed; once it has returned, either it succeeded after
\* exactly n failed POSTs and one more, the last, answered 2xx, or it gave
\* up with the last attempt's error after at most n POSTs, all failed, the
\* next delay leading past MaxElapsedTime.
C9_AckOnAttemptNPlusOneUnlessCeiling ==
    \A p \in Procs :
        Has(log[p], "provision_ok") =>
            LET n == failsAtStart[p]
                posts == Count(log[p], PostEvents)
                fails == Count(log[p], {"post_fail"})
                oks == Count(log[p], {"post_2xx"})
            IN IF pc[p] = "announce"
               THEN oks = 0 /\ fails <= n
               ELSE \/ /\ oks = 1
                       /\ fails = n
                       /\ log[p][n + 2] = "post_2xx"
                       /\ err[p] \notin CallbackErrors
                    \/ /\ oks = 0
                       /\ fails >= 1
                       /\ fails <= n
                       /\ pc[p] = "done"
                       /\ err[p] \in CallbackErrors
                       /\ elapsed[p] + next[p] > MaxElapsedTime

C9_Witness ==
    /\ pc[1] = "persist"
    /\ failsAtStart[1] = 2
    /\ log[1] = <<"provision_ok", "post_fail", "post_fail", "post_2xx">>

\* C10 (as claimed): the notifier never gives up: a run that has left the
\* Announce stage has had a POST answered 2xx and holds no callback error.
C10_NeverGivesUp ==
    \A p \in Procs :
        (Has(log[p], "provision_ok") /\ pc[p] # "announce") =>
            /\ Has(log[p], "post_2xx")
            /\ err[p] \notin CallbackErrors

\* C10 (amended): the notifier gives up only on elapsed time, never on the
\* number of attempts: while it retries, the elapsed time is within
\* MaxElapsedTime; a run leaves the Announce stage either through a POST
\* answered 2xx or with the last attempt's error when the next delay would
\* pass MaxElapsedTime, and then nothing was written and the connector was
\* not started.
C10_AnnounceEndsByAckOrCeiling ==
    \A p \in Procs :
        Has(log[p], "provision_ok") =>
            IF pc[p] = "announce"
            THEN elapsed[p] <= MaxElapsedTime /\ err[p] = "none"
            ELSE \/ Has(log[p], "post_2xx") /\ err[p] \notin CallbackErrors
                 \/ /\ pc[p] = "done"
                    /\ err[p] \in CallbackErrors
                    /\ elapsed[p] + next[p] > MaxElapsedTime
                    /\ Count(log[p], WriteEvents \cup ConnectEvents) = 0
                    /\ file = startFile[p]
                    /\ connArg[p] = None

C10_Witness ==
    /\ pc[1] = "done"
    /\ err[1] = "Callback error"
    /\ Count(log[1], {"post_fail"}) >= 3
    /\ failsAtStart[1] > Count(log[1], {"post_fail"})
    /\ file = None

\* C11 (as claimed): whenever RunPersistentQuickTunnel has returned an
\* error, the Action of the "run" command returns an error too, so that the
\* command fails.
C11_RunErrorFailsCommand ==
    \A p \in Procs :
        (pc[p] = "done" /\ err[p] # "nil") => RunAction(err[p]) # "nil"

\* C12: the config a successful write left on disk is what reading the
\* file back gives, field for field; a resumed run that loaded this file
\* holds a config equal to the saved one.
C12_LoadAfterSaveRoundTrip ==
    /\ saved # None => (file # None /\ LoadConfig(file, TRUE) = saved)
    /\ \A p \in Procs :
          (saved # None /\ Has(log[p], "load_ok") /\ startFile[p] = file)
          => /\ config[p] = saved
             /\ config[p][1].URL = saved[1].URL
             /\ config[p][1].Credentials.AccountTag
                   = saved[1].Credentials.AccountTag
             /\ config[p][1].Credentials.TunnelSecret
                   = saved[1].Credentials.TunnelSecret
             /\ config[p][1].Credentials.TunnelID
                   = saved[1].Credentials.TunnelID
             /\ config[p][1].Credentials.TunnelName
                   = saved[1].Credentials.TunnelName

\* a second run that loaded what the first, fresh run saved
C12_Witness ==
    /\ runs = 2
    /\ prevErr[1] = ConnectorError
    /\ Has(log[1], "load_ok")
    /\ saved # None
    /\ saved[1].Credentials.TunnelID = 2
    /\ config[1] = saved

\* C13 (as claimed): when os.Stat fails with an error other than ENOENT
\* the run ends with that error and takes neither branch.
C13_StatErrorSurfaced ==
    \A p \in Procs :
        (pc[p] # "idle" /\ ~pathReachable) =>
            /\ pc[p] = "done"
            /\ err[p] = "stat error"
            /\ ~existingTunnel[p]
            /\ log[p] = <<>>

\* The latest event of a run is a POST.
JustPosted(p) == Len(log[p]) > 0 /\ log[p][Len(log[p])] \in PostEvents

\* C14 (as claimed): after a POST the run goes on to Persist exactly when
\* the status was within 200..299; after any other reply it is still in the
\* retry loop, about to make another attempt.
C14_FailureAlwaysRetried ==
    \A p \in Procs :
        JustPosted(p) =>
            /\ pc[p] = "persist" <=> (lastReply >= 200 /\ lastReply <= 299)
            /\ ~(lastReply >= 200 /\ lastReply <= 299) => pc[p] = "announce"

\* C14 (amended): after a POST the run goes on to Persist exactly when the
\* status was within 200..299; after any other reply it has written nothing
\* and not started the connector, and it is either still in the retry loop
\* or, the next delay leading past MaxElapsedTime, over with that error.
C14_SuccessIffStatus2xx ==
    \A p \in Procs :
        JustPosted(p) =>
            /\ pc[p] = "persist" <=> (lastReply >= 200 /\ lastReply <= 299)
            /\ ~(lastReply >= 200 /\ lastReply <= 299) =>
                  /\ Count(log[p], WriteEvents \cup ConnectEvents) = 0
                  /\ connArg[p] = None
                  /\ \/ pc[p] = "announce"
                     \/ /\ pc[p] = "done"
                        /\ err[p] \in CallbackErrors
                        /\ elapsed[p] + next[p] > MaxElapsedTime

C14_Witness ==
    /\ pc[1] = "persist"
    /\ lastReply = 299
    /\ log[1] = <<"provision_ok", "post_fail", "post_2xx">>

ProvisionErrors ==
    {"failed to request quick Tunnel", "failed to unmarshal quick Tunnel",
     "failed to parse quick Tunnel ID"}

\* C15: in a run that started with no file, the connector is reached only
\* after a successful provisioning, a POST answered 2xx and a successful
\* write, in this order; a failed provisioning, a notifier that gave up and
\* a failed write each end the run with that stage's error and without the
\* connector having been started.
C15_ConnectOnlyAfterAllStages ==
    \A p \in Procs :
        StartedFresh(p) =>
            /\ (pc[p] = "connect" \/ connArg[p] # None
                    \/ Count(log[p], ConnectEvents) > 0)
                  => /\ InOrder(log[p], "provision_ok", "post_2xx",
                                {"write_ok"})
                     /\ Count(log[p], {"provision_err", "write_err"}) = 0
            /\ Has(log[p], "provision_err")
                  => /\ pc[p] = "done"
                     /\ err[p] \in ProvisionErrors
                     /\ connArg[p] = None
            /\ (pc[p] = "done" /\ Has(log[p], "provision_ok")
                    /\ ~Has(log[p], "post_2xx"))
                  => /\ err[p] \in CallbackErrors
                     /\ connArg[p] = None
            /\ Has(log[p], "write_err")
                  => /\ pc[p] = "done"
                     /\ err[p] = "write error"
                     /\ connArg[p] = None

C15_Witness ==
    /\ StartedFresh(1)
    /\ pc[1] = "done"
    /\ err[1] = "write error"
    /\ file = Some(Garbage)
    /\ connArg[1] = None

\* C16: a step that removes or changes a file that exists is the os.Remove
\* of a run that started with this file, took the else branch and saw its
\* connector fail; the file is then gone.
C16_DeletedOnlyAfterResumedFailure ==
    [][ (file # None /\ file' # file) =>
            \E p \in Procs :
                /\ pc[p] = "remove"
                /\ pc'[p] = "done"
                /\ existingTunnel[p]
                /\ startFile[p] = file
                /\ log[p][Len(log[p])] = "connect_err"
                /\ file' = None ]_vars

\* a file that outlived a failed deletion and is deleted by the next run
C16_Witness ==
    /\ runs = 2
    /\ prevErr[1] = "remove error"
    /\ startFile[1] # None
    /\ Has(log[1], "remove_ok")
    /\ file = None

\* C17: when os.Remove fails the run ends with that error, which is neither
\* the "restart required" error nor the connector's, and the file the run
\* started with is still there; the next run finds it and takes the else
\* branch again, without provisioning.
C17_DeleteFailureKeepsFile ==
    \A p \in Procs :
        /\ Has(log[p], "remove_err")
              => /\ pc[p] = "done"
                 /\ err[p] = "remove error"
                 /\ err[p] \notin {RestartRequired, ConnectorError}
                 /\ file # None
                 /\ file = startFile[p]
        /\ (prevErr[p] = "remove error" /\ pc[p] # "idle")
              => /\ startFile[p] # None
                 /\ pc[p] \notin {"provision", "announce", "persist"}
                 /\ Count(log[p], ProvisionEvents \cup PostEvents
                                     \cup WriteEvents) = 0

C17_Witness ==
    /\ prevErr[1] = "remove error"
    /\ pc[1] = "connect"
    /\ existingTunnel[1]
    /\ log[1] = <<"load_ok">>

\* C18: whenever the document of a config written by one of the runs is on
\* disk, the listener has answered 2xx to a POST whose body is the URL that
\* document stores.
C18_SavedUrlWasAcked ==
    saved # None =>
        /\ file = Some(MarshalIndent(saved[1]))
        /\ file[1].URL.t = "string"
        /\ file[1].URL.v \in acked

C18_Witness ==
    /\ runs = 2
    /\ prevErr[1] = RestartRequired
    /\ saved # None
    /\ file[1].URL.v = Scheme \o HostB
    /\ acked = {Scheme \o HostB}

\* C19 (as claimed): in a run that provisioned a tunnel, the URL shown in
\* the banner, the body of an acknowledged POST, the URL written to the
\* file and the URL handed to the connector are all the same string.
C19_SameUrlEverywhere ==
    \A p \in Procs :
        Has(log[p], "provision_ok") =>
            /\ banner[p] = Some(config[p][1].URL)
            /\ Has(log[p], "post_2xx") => banner[p][1] \in acked
            /\ (Has(log[p], "write_ok") /\ saved # None)
                  => banner[p][1] = saved[1].URL
            /\ connArg[p] # None => banner[p][1] = connArg[p][1].QuickTunnelUrl

\* C20: whether provisioning succeeds is decided by the transport, the
\* decodability of the body and the validity of the id alone, as is the
\* error it fails with; the credentials of the config are those of the
\* result object, whatever the success flag, the errors list and the HTTP
\* status say.
C20_OutcomeIgnoresSuccessFlag ==
    \A p \in Procs :
        response[p] # None =>
            LET r == response[p][1]
                valid == r.Result.ID.shape
                            \in {"canonical", "urn", "braced", "compact"}
            IN /\ Has(log[p], "provision_ok")
                     <=> (r.postOK /\ r.decodable /\ valid)
               /\ Has(log[p], "provision_ok")
                     => config[p][1].Credentials
                           = Credentials(r.Result.AccountTag, r.Result.Secret,
                                         r.Result.ID.val, r.Result.Name)
               /\ Has(log[p], "provision_err")
                     => err[p] = IF ~r.postOK
                                 THEN "failed to request quick Tunnel"
                                 ELSE IF ~r.decodable
                                 THEN "failed to unmarshal quick Tunnel"
                                 ELSE "failed to parse quick Tunnel ID"

C20_Witness ==
    /\ response[1] # None
    /\ ~response[1][1].Success
    /\ response[1][1].status = 500
    /\ response[1][1].Errors # <<>>
    /\ log[1] = <<"provision_ok", "post_2xx", "write_ok", "connect_ok">>

\* The file holds the config that run p provisioned and wrote, while the
\* POST most recently answered 2xx carried the URL of the other run q.
FileOfOneAckOfOther(p, q) ==
    /\ p # q
    /\ Has(log[p], "provision_ok")
    /\ Has(log[q], "provision_ok")
    /\ saved # None
    /\ saved = config[p]
    /\ file = Some(MarshalIndent(config[p][1]))
    /\ lastAcked = Some(CallbackBody(config[q][1]))
    /\ CallbackBody(config[q][1]) # CallbackBody(config[p][1])
    /\ config[q][1].Credentials # config[p][1].Credentials

\* C21: two interleaved runs are not kept apart by anything but the test at
\* their start.  The file can hold a config whose URL is not the one most
\* recently acknowledged, and this only when both runs found no file,
\* provisioned a tunnel each and were both acknowledged, the file holding
\* what one of them wrote; and the file a run has written can be gone
\* while that run goes on, and this only when the other run found that
\* file at its start and deleted it.
C21_InterleavedRunsShareNothingButTheFile ==
    /\ (saved # None /\ lastAcked # Some(CallbackBody(saved[1])))
          => /\ \A p \in Procs :
                   /\ StartedFresh(p)
                   /\ Has(log[p], "provision_ok")
                   /\ Has(log[p], "post_2xx")
             /\ \E p, q \in Procs : FileOfOneAckOfOther(p, q)
    /\ \A p \in Procs :
          (Has(log[p], "write_ok") /\ file = None)
          => \E q \in Procs \ {p} :
                /\ startFile[q] = Some(MarshalIndent(config[p][1]))
                /\ existingTunnel[q]
                /\ Has(log[q], "remove_ok")

\* both runs provisioned; the file is run 1's, the last acknowledged URL
\* run 2's
C21_Witness ==
    /\ FileOfOneAckOfOther(1, 2)
    /\ log[1] = <<"provision_ok", "post_2xx", "write_ok">>
    /\ log[2] = <<"provision_ok", "post_2xx", "write_ok">>

\* run 2 has deleted the file run 1 wrote, while run 1's connector runs
FileDeletedUnderWriter ==
    /\ pc[1] = "connect"
    /\ log[1] = <<"provision_ok", "post_2xx", "write_ok">>
    /\ startFile[2] = Some(MarshalIndent(config[1][1]))
    /\ log[2] = <<"load_ok", "connect_err", "remove_ok">>
    /\ file = None

\* The length of the longest of the lines, 0 when there is none.
Longest(ls) ==
    CHOOSE m \in {0} \cup {Len(ls[i]) : i \in 1 .. Len(ls)} :
        \A i \in 1 .. Len(ls) : Len(ls[i]) <= m

\* C22: the box AsciiBox returns for lines and a padding p >= 0 has one row
\* per line and two more; its first and last rows are the same border, a
\* "+", then "-" signs, then a "+", of length Longest + 2p + 2; every row
\* in between has this length and is a "|", p spaces, the line, spaces up
\* to the longest line's width, p spaces and a "|".
C22_BoxIsRectangular ==
    box # None =>
        LET rows == box[1]
            p == argPadding
            w == Longest(argLines) + 2 * p + 2
        IN /\ Len(rows) = Len(argLines) + 2
           /\ rows[1] = rows[Len(rows)]
           /\ Len(rows[1]) = w
           /\ rows[1][1] = "+"
           /\ rows[1][w] = "+"
           /\ \A k \in 2 .. w - 1 : rows[1][k] = "-"
           /\ \A i \in 1 .. Len(argLines) :
                 LET row == rows[i + 1]
                     n == Len(argLines[i])
                 IN /\ Len(row) = w
                    /\ row[1] = "|"
                    /\ row[w] = "|"
                    /\ \A k \in 1 .. p : row[1 + k] = " " /\ row[w - k] = " "
                    /\ SubSeq(row, p + 2, p + 1 + n) = argLines[i]
                    /\ \A k \in p + 2 + n .. w - 1 : row[k] = " "

\* the lines "a" and "bb" with padding 1
C22_Witness ==
    /\ argLines = << <<"a">>, <<"b", "b">> >>
    /\ argPadding = 1
    /\ box = Some(<< <<"+", "-", "-", "-", "-", "+">>,
                     <<"|", " ", "a", " ", " ", "|">>,
                     <<"|", " ", "b", "b", " ", "|">>,
                     <<"+", "-", "-", "-", "-", "+">> >>)

====
